---- MODULE Spec2Model ----
(***************************************************************************)
(* django_cloud_tasks/base.py as a state machine.                          *)
(*                                                                         *)
(* Python values are tagged records ([t |-> "str", v |-> <<codes>>], ...); *)
(* a Python str is the sequence of its code points, so that formatting,    *)
(* JSON and base64 are computed on characters.  Each caller (a thread of   *)
(* the host process) constructs a CloudTaskWrapper and then calls one of   *)
(* its operations; the retry wrapper is stepped attempt by attempt.  The   *)
(* queueing service, time.sleep, the logger and the task handler are the   *)
(* environment: every call made to them is appended to events[c].          *)
(***************************************************************************)
EXTENDS Integers, Sequences, FiniteSets, Bags, TLC

\* Largest retry_limit a caller passes, and largest number of leading failures
\* of the submission call.
MaxRetry == 3

\* line 63: a batch of this many tasks or more is refused
BatchLimit == 1000

Callers == {"c1", "c2"}

(***************************************************************************)
(* Text literals of the source, as code points.                            *)
(***************************************************************************)
\* "Task scheduling limit exhausted"
TxtExhausted == <<84, 97, 115, 107, 32, 115, 99, 104, 101, 100, 117, 108, 105, 110, 103, 32, 108, 105, 109, 105, 116, 32, 101, 120, 104, 97, 117, 115, 116, 101, 100>>
\* "Either `internal_task_name` or `base_task` should be provided"
TxtErrName == <<69, 105, 116, 104, 101, 114, 32, 96, 105, 110, 116, 101, 114, 110, 97, 108, 95, 116, 97, 115, 107, 95, 110, 97, 109, 101, 96, 32, 111, 114, 32, 96, 98, 97, 115, 101, 95, 116, 97, 115, 107, 96, 32, 115, 104, 111, 117, 108, 100, 32, 98, 101, 32, 112, 114, 111, 118, 105, 100, 101, 100>>
\* "Could not identify task handler URL of the worker service"
TxtErrUrl == <<67, 111, 117, 108, 100, 32, 110, 111, 116, 32, 105, 100, 101, 110, 116, 105, 102, 121, 32, 116, 97, 115, 107, 32, 104, 97, 110, 100, 108, 101, 114, 32, 85, 82, 76, 32, 111, 102, 32, 116, 104, 101, 32, 119, 111, 114, 107, 101, 114, 32, 115, 101, 114, 118, 105, 99, 101>>
\* "/queues/"
TxtQueues == <<47, 113, 117, 101, 117, 101, 115, 47>>
\* "POST"
TxtPOST == <<80, 79, 83, 84>>
\* "internal_task_name"
TxtNameKey == <<105, 110, 116, 101, 114, 110, 97, 108, 95, 116, 97, 115, 107, 95, 110, 97, 109, 101>>
\* "Maximum number of tasks in batch cannot exceed 1000"
TxtErrBatch == <<77, 97, 120, 105, 109, 117, 109, 32, 110, 117, 109, 98, 101, 114, 32, 111, 102, 32, 116, 97, 115, 107, 115, 32, 105, 110, 32, 98, 97, 116, 99, 104, 32, 99, 97, 110, 110, 111, 116, 32, 101, 120, 99, 101, 101, 100, 32, 49, 48, 48, 48>>
\* "HTTP_X_APPENGINE_TASKNAME"
TxtTaskNameHeader == <<72, 84, 84, 80, 95, 88, 95, 65, 80, 80, 69, 78, 71, 73, 78, 69, 95, 84, 65, 83, 75, 78, 65, 77, 69>>
\* "error"
TxtError == <<101, 114, 114, 111, 114>>
\* "message"
TxtMessage == <<109, 101, 115, 115, 97, 103, 101>>
\* "data"
TxtDataKey == <<100, 97, 116, 97>>

(***************************************************************************)
(* Texts of the environment: what the interpreter says when an attribute   *)
(* of None is read, and the inputs the callers and the configuration use.  *)
(***************************************************************************)
\* "'NoneType' object has no attribute 'args'"
TxtNoArgs == <<39, 78, 111, 110, 101, 84, 121, 112, 101, 39, 32, 111, 98, 106, 101, 99, 116, 32, 104, 97, 115, 32, 110, 111, 32, 97, 116, 116, 114, 105, 98, 117, 116, 101, 32, 39, 97, 114, 103, 115, 39>>
\* "'NoneType' object has no attribute 'internal_task_name'"
TxtNoName == <<39, 78, 111, 110, 101, 84, 121, 112, 101, 39, 32, 111, 98, 106, 101, 99, 116, 32, 104, 97, 115, 32, 110, 111, 32, 97, 116, 116, 114, 105, 98, 117, 116, 101, 32, 39, 105, 110, 116, 101, 114, 110, 97, 108, 95, 116, 97, 115, 107, 95, 110, 97, 109, 101, 39>>
\* "'NoneType' object has no attribute 'run'"
TxtNoRun == <<39, 78, 111, 110, 101, 84, 121, 112, 101, 39, 32, 111, 98, 106, 101, 99, 116, 32, 104, 97, 115, 32, 110, 111, 32, 97, 116, 116, 114, 105, 98, 117, 116, 101, 32, 39, 114, 117, 110, 39>>
\* "send_email"
TxtSendEmail == <<115, 101, 110, 100, 95, 101, 109, 97, 105, 108>>
\* "h"
TxtH == <<104>>
\* "/worker"
TxtWorker == <<47, 119, 111, 114, 107, 101, 114>>
\* "/x"
TxtX == <<47, 120>>
\* "default"
TxtDefault == <<100, 101, 102, 97, 117, 108, 116>>
\* "high"
TxtHigh == <<104, 105, 103, 104>>
\* "p/l"
TxtLoc == <<112, 47, 108>>
\* "t1"
TxtT1 == <<116, 49>>
\* "HTTP_HOST"
TxtHost == <<72, 84, 84, 80, 95, 72, 79, 83, 84>>
\* "id"
TxtId == <<105, 100>>
\* "n"
TxtN == <<110>>
\* the bodies of two per-item failures of the queueing service, as bytes:
\* '{"error":{"message":"quota","code":429}}'
BodyQuota == <<123, 34, 101, 114, 114, 111, 114, 34, 58, 123, 34, 109, 101, 115, 115, 97, 103, 101, 34, 58, 34, 113, 117, 111, 116, 97, 34, 44, 34, 99, 111, 100, 101, 34, 58, 52, 50, 57, 125, 125>>
\* '{\n  "error": {\n    "code": 403,\n    "message": "a \\"b\\" \\u00e9"\n  }\n}\n'
BodyDenied == <<123, 10, 32, 32, 34, 101, 114, 114, 111, 114, 34, 58, 32, 123, 10, 32, 32, 32, 32, 34, 99, 111, 100, 101, 34, 58, 32, 52, 48, 51, 44, 10, 32, 32, 32, 32, 34, 109, 101, 115, 115, 97, 103, 101, 34, 58, 32, 34, 97, 32, 92, 34, 98, 92, 34, 32, 92, 117, 48, 48, 101, 57, 34, 10, 32, 32, 125, 10, 125, 10>>
\* "to"
TxtTo == <<116, 111>>
\* "a@example.com"
TxtAddr == <<97, 64, 101, 120, 97, 109, 112, 108, 101, 46, 99, 111, 109>>

(***************************************************************************)
(* Python values.                                                          *)
(***************************************************************************)
None == [t |-> "None"]
PyStr(s) == [t |-> "str", v |-> s]
PyInt(n) == [t |-> "int", v |-> n]
PyBool(b) == [t |-> "bool", v |-> b]
PyList(xs) == [t |-> "list", v |-> xs]
\* a dict is the sequence of its <<key, value>> items, in insertion order
PyDict(items) == [t |-> "dict", v |-> items]

\* bool(v): None, 0, False and empty strings and containers are falsy.
Truthy(v) ==
  CASE v.t = "None" -> FALSE
    [] v.t = "bool" -> v.v
    [] v.t = "int" -> v.v # 0
    [] v.t \in {"str", "list", "dict", "bytes"} -> v.v # <<>>
    [] OTHER -> TRUE

\* `a or b`
Or(a, b) == IF Truthy(a) THEN a ELSE b

\* An exception object: its class, its args and the identity of the object
\* (n: the call of the environment that raised it, 0 when the code raised it).
Exc(type, args, n) == [t |-> "exc", type |-> type, args |-> args, id |-> n]

Returned(v) == [kind |-> "return", value |-> v]
Raised(e) == [kind |-> "raise", error |-> e]
Pending == [kind |-> "none"]

(***************************************************************************)
(* json.dumps(payload, cls=ComplexEncoder), payload.encode(),              *)
(* base64.b64encode and bytes.decode, on code points and bytes.            *)
(***************************************************************************)
\* the concatenation of a sequence of sequences (by halves)
RECURSIVE Flatten(_)
Flatten(ss) ==
  IF Len(ss) = 0 THEN <<>>
  ELSE IF Len(ss) = 1 THEN ss[1]
  ELSE Flatten(SubSeq(ss, 1, Len(ss) \div 2)) \o Flatten(SubSeq(ss, Len(ss) \div 2 + 1, Len(ss)))

\* sep.join(parts)
RECURSIVE Join(_, _)
Join(parts, sep) ==
  IF parts = <<>> THEN <<>>
  ELSE IF Len(parts) = 1 THEN parts[1]
  ELSE parts[1] \o sep \o Join(Tail(parts), sep)

HexDigit(d) == IF d < 10 THEN 48 + d ELSE 87 + d
Hex4(n) ==
  <<HexDigit(n \div 4096), HexDigit((n \div 256) % 16), HexDigit((n \div 16) % 16),
    HexDigit(n % 16)>>

\* UUID.hex: the 128-bit value as 32 lowercase hexadecimal digits
UuidHex(u) ==
  Flatten([i \in 1..Len(u.v) |-> <<HexDigit(u.v[i] \div 16), HexDigit(u.v[i] % 16)>>])

\* str(uuid): the hexadecimal digits in groups of 8-4-4-4-12
UuidStr(u) ==
  LET h == UuidHex(u)
  IN SubSeq(h, 1, 8) \o <<45>> \o SubSeq(h, 9, 12) \o <<45>> \o SubSeq(h, 13, 16) \o <<45>>
     \o SubSeq(h, 17, 20) \o <<45>> \o SubSeq(h, 21, 32)

\* default returning str(obj) in place of obj.hex
ComplexEncoderDefaultStr(obj) == PyStr(UuidStr(obj))

\* ComplexEncoder.default
ComplexEncoderDefault(obj) == PyStr(UuidHex(obj))

\* json's string escaping with ensure_ascii
EscapeChar(ch) ==
  CASE ch = 34 -> <<92, 34>>
    [] ch = 92 -> <<92, 92>>
    [] ch = 10 -> <<92, 110>>
    [] ch = 13 -> <<92, 114>>
    [] ch = 9 -> <<92, 116>>
    [] ch = 8 -> <<92, 98>>
    [] ch = 12 -> <<92, 102>>
    [] ch >= 32 /\ ch <= 126 -> <<ch>>
    [] ch < 65536 -> <<92, 117>> \o Hex4(ch)
    [] OTHER -> <<92, 117>> \o Hex4(55296 + ((ch - 65536) \div 1024))
                \o <<92, 117>> \o Hex4(56320 + ((ch - 65536) % 1024))

JsonString(s) == <<34>> \o Flatten([i \in 1..Len(s) |-> EscapeChar(s[i])]) \o <<34>>

RECURSIVE Digits(_)
Digits(n) == IF n < 10 THEN <<48 + n>> ELSE Digits(n \div 10) \o <<48 + (n % 10)>>

JsonInt(n) == IF n < 0 THEN <<45>> \o Digits(-n) ELSE Digits(n)

RECURSIVE JsonDumps(_)
JsonDumps(o) ==
  CASE o.t = "None" -> <<110, 117, 108, 108>>
    [] o.t = "bool" -> IF o.v THEN <<116, 114, 117, 101>> ELSE <<102, 97, 108, 115, 101>>
    [] o.t = "int" -> JsonInt(o.v)
    [] o.t = "str" -> JsonString(o.v)
    [] o.t = "list" ->
         <<91>> \o Join([i \in 1..Len(o.v) |-> JsonDumps(o.v[i])], <<44, 32>>) \o <<93>>
    [] o.t = "dict" ->
         <<123>>
         \o Join([i \in 1..Len(o.v) |->
                    JsonString(o.v[i][1].v) \o <<58, 32>> \o JsonDumps(o.v[i][2])],
                 <<44, 32>>)
         \o <<125>>
    [] OTHER -> JsonDumps(ComplexEncoderDefault(o))

\* str.encode(): UTF-8
Utf8Char(ch) ==
  IF ch < 128 THEN <<ch>>
  ELSE IF ch < 2048 THEN <<192 + (ch \div 64), 128 + (ch % 64)>>
  ELSE IF ch < 65536 THEN <<224 + (ch \div 4096), 128 + ((ch \div 64) % 64), 128 + (ch % 64)>>
  ELSE <<240 + (ch \div 262144), 128 + ((ch \div 4096) % 64), 128 + ((ch \div 64) % 64),
         128 + (ch % 64)>>

Utf8Encode(s) == Flatten([i \in 1..Len(s) |-> Utf8Char(s[i])])

\* bytes.decode('utf-8') of well-formed UTF-8: one character per lead byte
Utf8CharAt(b, i) ==
  IF b[i] < 128 THEN b[i]
  ELSE IF b[i] < 224 THEN (b[i] - 192) * 64 + (b[i + 1] - 128)
  ELSE IF b[i] < 240
    THEN (b[i] - 224) * 4096 + (b[i + 1] - 128) * 64 + (b[i + 2] - 128)
  ELSE (b[i] - 240) * 262144 + (b[i + 1] - 128) * 4096 + (b[i + 2] - 128) * 64
       + (b[i + 3] - 128)

Utf8Decode(b) ==
  LET leads == SelectSeq([i \in 1..Len(b) |-> i], LAMBDA i : b[i] < 128 \/ b[i] >= 192)
  IN [k \in 1..Len(leads) |-> Utf8CharAt(b, leads[k])]

B64Char(n) ==
  IF n < 26 THEN 65 + n
  ELSE IF n < 52 THEN 71 + n
  ELSE IF n < 62 THEN n - 4
  ELSE IF n = 62 THEN 43 ELSE 47

\* the four characters of the g-th group of three bytes (padded with "=")
B64Group(b, g) ==
  LET i == 3 * g - 2
      n == Len(b) - i + 1
  IN IF n = 1
     THEN <<B64Char(b[i] \div 4), B64Char((b[i] % 4) * 16), 61, 61>>
     ELSE IF n = 2
     THEN <<B64Char(b[i] \div 4), B64Char((b[i] % 4) * 16 + (b[i + 1] \div 16)),
            B64Char((b[i + 1] % 16) * 4), 61>>
     ELSE <<B64Char(b[i] \div 4), B64Char((b[i] % 4) * 16 + (b[i + 1] \div 16)),
            B64Char((b[i + 1] % 16) * 4 + (b[i + 2] \div 64)), B64Char(b[i + 2] % 64)>>

B64Encode(b) == Flatten([g \in 1..((Len(b) + 2) \div 3) |-> B64Group(b, g)])

(***************************************************************************)
(* json.loads and base64.b64decode: the decoding the worker applies to a   *)
(* payload and batch_callback_logger applies to a failure's body.          *)
(***************************************************************************)
HexVal(c) == IF c >= 97 THEN c - 87 ELSE IF c >= 65 THEN c - 55 ELSE c - 48
HexVal4(s, i) ==
  HexVal(s[i]) * 4096 + HexVal(s[i + 1]) * 256 + HexVal(s[i + 2]) * 16 + HexVal(s[i + 3])

Unescape(e) ==
  CASE e = 110 -> 10
    [] e = 114 -> 13
    [] e = 116 -> 9
    [] e = 98 -> 8
    [] e = 102 -> 12
    [] OTHER -> e

RECURSIVE SkipWs(_, _)
SkipWs(s, i) == IF i <= Len(s) /\ s[i] \in {32, 9, 10, 13} THEN SkipWs(s, i + 1) ELSE i

\* the string whose opening quote is before position i
RECURSIVE ParseString(_, _, _)
ParseString(s, i, acc) ==
  IF s[i] = 34 THEN [v |-> acc, i |-> i + 1]
  ELSE IF s[i] # 92 THEN ParseString(s, i + 1, Append(acc, s[i]))
  ELSE IF s[i + 1] # 117 THEN ParseString(s, i + 2, Append(acc, Unescape(s[i + 1])))
  ELSE
    LET u == HexVal4(s, i + 2)
        paired == /\ u >= 55296 /\ u <= 56319
                  /\ i + 11 <= Len(s) /\ s[i + 6] = 92 /\ s[i + 7] = 117
                  /\ HexVal4(s, i + 8) >= 56320 /\ HexVal4(s, i + 8) <= 57343
    IN IF paired
       THEN ParseString(s, i + 12,
                        Append(acc, 65536 + (u - 55296) * 1024 + (HexVal4(s, i + 8) - 56320)))
       ELSE ParseString(s, i + 6, Append(acc, u))

RECURSIVE ParseDigits(_, _, _)
ParseDigits(s, i, acc) ==
  IF i <= Len(s) /\ s[i] >= 48 /\ s[i] <= 57
  THEN ParseDigits(s, i + 1, acc * 10 + (s[i] - 48))
  ELSE [v |-> acc, i |-> i]

\* d[k] = v on the items of a dict
DictSet(items, k, v) ==
  IF \E j \in 1..Len(items) : items[j][1] = k
  THEN [j \in 1..Len(items) |-> IF items[j][1] = k THEN <<k, v>> ELSE items[j]]
  ELSE Append(items, <<k, v>>)

RECURSIVE ParseValue(_, _)
RECURSIVE ParseElements(_, _, _)
RECURSIVE ParseMembers(_, _, _)

\* the elements of an array, position i being after "[" or ","
ParseElements(s, i, acc) ==
  LET e == ParseValue(s, i)
      j == SkipWs(s, e.i)
  IN IF s[j] = 44 THEN ParseElements(s, j + 1, Append(acc, e.v))
     ELSE [v |-> PyList(Append(acc, e.v)), i |-> j + 1]

\* the members of an object, position i being after "{" or ","
ParseMembers(s, i, acc) ==
  LET k == ParseString(s, SkipWs(s, i) + 1, <<>>)
      e == ParseValue(s, SkipWs(s, k.i) + 1)
      j == SkipWs(s, e.i)
      items == DictSet(acc, PyStr(k.v), e.v)
  IN IF s[j] = 44 THEN ParseMembers(s, j + 1, items)
     ELSE [v |-> PyDict(items), i |-> j + 1]

ParseValue(s, i0) ==
  LET i == SkipWs(s, i0)
  IN CASE s[i] = 123 ->
            IF s[SkipWs(s, i + 1)] = 125
            THEN [v |-> PyDict(<<>>), i |-> SkipWs(s, i + 1) + 1]
            ELSE ParseMembers(s, i + 1, <<>>)
       [] s[i] = 91 ->
            IF s[SkipWs(s, i + 1)] = 93
            THEN [v |-> PyList(<<>>), i |-> SkipWs(s, i + 1) + 1]
            ELSE ParseElements(s, i + 1, <<>>)
       [] s[i] = 34 -> LET r == ParseString(s, i + 1, <<>>) IN [v |-> PyStr(r.v), i |-> r.i]
       [] s[i] = 116 -> [v |-> PyBool(TRUE), i |-> i + 4]
       [] s[i] = 102 -> [v |-> PyBool(FALSE), i |-> i + 5]
       [] s[i] = 110 -> [v |-> None, i |-> i + 4]
       [] s[i] = 45 ->
            LET r == ParseDigits(s, i + 1, 0) IN [v |-> PyInt(0 - r.v), i |-> r.i]
       [] OTHER -> LET r == ParseDigits(s, i, 0) IN [v |-> PyInt(r.v), i |-> r.i]

JsonLoads(s) == ParseValue(s, 1).v

B64Val(c) ==
  IF c >= 97 THEN c - 71
  ELSE IF c >= 65 THEN c - 65
  ELSE IF c >= 48 THEN c + 4
  ELSE IF c = 43 THEN 62 ELSE 63

\* the bytes of the g-th group of four characters
B64Bytes(s, g) ==
  LET i == 4 * g - 3
      a == B64Val(s[i])
      b == B64Val(s[i + 1])
  IN IF s[i + 2] = 61 THEN <<a * 4 + (b \div 16)>>
     ELSE IF s[i + 3] = 61
     THEN <<a * 4 + (b \div 16), (b % 16) * 16 + (B64Val(s[i + 2]) \div 4)>>
     ELSE <<a * 4 + (b \div 16), (b % 16) * 16 + (B64Val(s[i + 2]) \div 4),
            (B64Val(s[i + 2]) % 4) * 64 + B64Val(s[i + 3])>>

B64Decode(s) == Flatten([g \in 1..(Len(s) \div 4) |-> B64Bytes(s, g)])

VARIABLES
  cfg,            \* DCTConfig: the process-wide configuration
  pc,             \* pc[c]: where caller c is
  wrapper,        \* wrapper[c]: the CloudTaskWrapper caller c holds, or None
  remote,         \* remote[c]: the RemoteCloudTask caller c holds, or None
  call,           \* call[c]: the operation c called last, with its arguments
  plan,           \* plan[c]: how many leading calls of the submission fail
  attempts_left,  \* retry.wrapper's local, per call
  error,          \* retry.wrapper's local, per call
  outcome,        \* outcome[c]: what the call returned or raised
  batch,          \* batch[c]: the batch request batch_execute builds, or None
  created,        \* created[c]: the requests built by tasks_endpoint.create
  callbacks,      \* callbacks[c]: the invocations of the per-item callback
  handled,        \* handled[c]: the invocations of the bound handler's run
  events,         \* events[c]: the other calls made to the environment, in order
  requests        \* the Execution Requests built, each with what it was built from

vars ==
  <<cfg, pc, wrapper, remote, call, plan, attempts_left, error, outcome, batch, created,
    callbacks, handled, events, requests>>

(***************************************************************************)
(* Inputs.                                                                 *)
(***************************************************************************)
Configs ==
  [execute_locally : BOOLEAN, block_remote_tasks : BOOLEAN,
   task_handler_root_url : {PyStr(<<>>), PyStr(TxtWorker)},
   project_location_name : {PyStr(TxtLoc)}]

\* bound task objects: none, one whose internal_task_name is "h", one whose
\* internal_task_name is empty
BaseTasks ==
  {None, [t |-> "task", internal_task_name |-> PyStr(TxtH)],
   [t |-> "task", internal_task_name |-> PyStr(<<>>)]}

\* 12345678-9abc-def0-0123-456789abcdef and 00000000-0000-4000-8000-0000000000ff
Uuids ==
  {[t |-> "uuid", v |-> <<18, 52, 86, 120, 154, 188, 222, 240, 1, 35, 69, 103, 137, 171, 205, 239>>],
   [t |-> "uuid", v |-> <<0, 0, 0, 0, 0, 0, 64, 0, 128, 0, 0, 0, 0, 0, 0, 255>>]}

\* no payload, an empty one, and {"to": "a@example.com"}
Payloads == {None, PyDict(<<>>), PyDict(<< <<PyStr(TxtTo), PyStr(TxtAddr)>> >>)}

\* more payloads for the encoder: a UUID at the top, values of every JSON type
\* and nested containers:
\* {"id": UUID}, {"n": 0}, {"to": []}, and
\* {"id": UUID, "n": [1, -20, True, None, 'a"\é', UUID, {}], "to": {"to": []}}
WidePayloads ==
  Payloads
  \cup {PyDict(<< <<PyStr(TxtId), u>> >>) : u \in Uuids}
  \cup {PyDict(<< <<PyStr(TxtN), PyInt(0)>> >>), PyDict(<< <<PyStr(TxtTo), PyList(<<>>)>> >>)}
  \cup {PyDict(<< <<PyStr(TxtId), u>>,
                  <<PyStr(TxtN),
                    PyList(<<PyInt(1), PyInt(-20), PyBool(TRUE), None,
                             PyStr(<<97, 34, 92, 233>>), u, PyDict(<<>>)>>)>>,
                  <<PyStr(TxtTo), PyDict(<< <<PyStr(TxtTo), PyList(<<>>)>> >>)>> >>) :
          u \in Uuids}

\* retry_limit: None and 0 are the falsy values
RetryLimits == {None} \cup {PyInt(n) : n \in 0..MaxRetry}
RetryIntervals == {PyInt(5)}
Plans == 0..MaxRetry

\* the lengths of the task lists handed to batch_execute
BatchSizes == {0, 2, BatchLimit - 1, BatchLimit, BatchLimit + 1}

\* the bodies of per-item failures
Bodies == {BodyQuota, BodyDenied}

\* what the bound handler's run does: returns a value or raises
HandlerResults ==
  {Returned(None), Returned(PyInt(7)), Raised(Exc("RuntimeError", <<PyStr(TxtH)>>, 1))}

\* the header mappings of inbound worker requests (request.META) and of mock
\* requests
Metas ==
  {PyDict(<<>>),
   PyDict(<< <<PyStr(TxtHost), PyStr(TxtX)>> >>),
   PyDict(<< <<PyStr(TxtTaskNameHeader), PyStr(TxtT1)>> >>),
   PyDict(<< <<PyStr(TxtHost), PyStr(TxtX)>>, <<PyStr(TxtTaskNameHeader), PyStr(<<>>)>> >>)}

(***************************************************************************)
(* Lists that may be long are kept as runs: [x |-> element, n |-> count]   *)
(* stands for n consecutive occurrences of x.                              *)
(***************************************************************************)
RECURSIVE RunsLen(_)
RunsLen(rs) == IF rs = <<>> THEN 0 ELSE Head(rs).n + RunsLen(Tail(rs))

Repeat(x, n) == IF n = 0 THEN <<>> ELSE <<[x |-> x, n |-> n]>>

\* d.get(k) on a dict
DictGet(d, k) ==
  IF \E j \in 1..Len(d.v) : d.v[j][1] = k
  THEN d.v[CHOOSE j \in 1..Len(d.v) : d.v[j][1] = k][2]
  ELSE None

(***************************************************************************)
(* CloudTaskMockRequest and CloudTaskRequest                               *)
(***************************************************************************)
\* setup without the default of line 91
CloudTaskMockRequestNoHeaders(request, task_id, request_headers, uuid4) ==
  [t |-> "CloudTaskMockRequest", request |-> request,
   task_id |-> IF ~Truthy(task_id) THEN PyStr(UuidHex(uuid4)) ELSE task_id,
   request_headers |-> request_headers]

\* CloudTaskMockRequest(request, task_id, request_headers); uuid4 is the value
\* uuid.uuid4() gives
CloudTaskMockRequest(request, task_id, request_headers, uuid4) ==
  [t |-> "CloudTaskMockRequest", request |-> request,
   task_id |-> IF ~Truthy(task_id) THEN PyStr(UuidHex(uuid4)) ELSE task_id,
   request_headers |-> IF ~Truthy(request_headers) THEN PyDict(<<>>) ELSE request_headers]

\* CloudTaskRequest.from_cloud_request(request)
FromCloudRequest(request) ==
  [t |-> "CloudTaskRequest", request |-> request,
   task_id |-> DictGet(request.META, PyStr(TxtTaskNameHeader)),
   request_headers |-> request.META]

(***************************************************************************)
(* CloudTaskWrapper.__init__ and setup                                     *)
(***************************************************************************)
NewWrapper(config, base_task, queue, data, internal_task_name, task_handler_url, is_remote) ==
  IF ~Truthy(internal_task_name) /\ base_task = None
  THEN Raised(Exc("AttributeError", <<PyStr(TxtNoName)>>, 0))
  ELSE
    LET name == IF Truthy(internal_task_name) THEN internal_task_name
                ELSE base_task.internal_task_name
        url == Or(task_handler_url, config.task_handler_root_url)
    IN IF ~Truthy(name) THEN Raised(Exc("ValueError", <<PyStr(TxtErrName)>>, 0))
       ELSE IF ~Truthy(url) THEN Raised(Exc("ValueError", <<PyStr(TxtErrUrl)>>, 0))
       ELSE Returned([t |-> "wrapper", base_task |-> base_task, data |-> data,
                      queue |-> queue, internal_task_name |-> name,
                      task_handler_url |-> url, is_remote |-> is_remote])

(***************************************************************************)
(* RemoteCloudTask and remote_task                                         *)
(***************************************************************************)
\* RemoteCloudTask(queue, handler, task_handler_url): lines 194-197
RemoteCloudTask(config, queue, handler, task_handler_url) ==
  [t |-> "RemoteCloudTask", queue |-> queue, handler |-> handler,
   task_handler_url |-> Or(task_handler_url, config.task_handler_root_url)]

\* payload building a wrapper that is not marked remote
RemotePayloadNotRemote(config, ref, payload) ==
  NewWrapper(config, None, ref.queue, payload, ref.handler, ref.task_handler_url, FALSE)

\* RemoteCloudTask.payload(payload): lines 205-208
RemotePayload(config, ref, payload) ==
  NewWrapper(config, None, ref.queue, payload, ref.handler, ref.task_handler_url, TRUE)

(***************************************************************************)
(* CloudTaskWrapper.create_cloud_task                                      *)
(***************************************************************************)
\* the queue path with the queue fixed to "default"
CloudTaskQueueNameDefault(config, w) ==
  PyStr(config.project_location_name.v \o TxtQueues \o TxtDefault)

CloudTaskQueueName(config, w) ==
  PyStr(config.project_location_name.v \o TxtQueues \o w.queue.v)

\* lines 177-184: the payload field
ConvertedPayload(w) ==
  LET payload == PyDict(<< <<PyStr(TxtNameKey), w.internal_task_name>>,
                           <<PyStr(TxtDataKey), w.data>> >>)
  IN PyStr(B64Encode(Utf8Encode(JsonDumps(payload))))

\* the request tasks_endpoint.create(parent, body) gives
CreateCloudTask(config, w) ==
  [t |-> "request",
   parent |-> CloudTaskQueueName(config, w),
   body |-> [httpMethod |-> PyStr(TxtPOST), relativeUrl |-> w.task_handler_url,
             payload |-> ConvertedPayload(w)]]

(***************************************************************************)
(* CloudTaskWrapper.run                                                    *)
(***************************************************************************)
\* the payload passed on whatever it is
RunKwargsAlwaysData(w) == w.data

\* the keyword arguments of the handler's run besides request
RunKwargs(w) == IF Truthy(w.data) THEN w.data ELSE PyDict(<<>>)

\* run calling the handler again when it raised
RunTaskAgainOnError(w, mock_request, uuid4, hres) ==
  LET request == IF Truthy(mock_request) THEN mock_request
                 ELSE CloudTaskMockRequest(None, None, None, uuid4)
      one == [request |-> request, kwargs |-> RunKwargs(w), result |-> hres]
  IN IF w.base_task = None
     THEN [result |-> Raised(Exc("AttributeError", <<PyStr(TxtNoRun)>>, 0)), handled |-> <<>>]
     ELSE [result |-> hres,
           handled |-> IF hres.kind = "raise" THEN <<one, one>> ELSE <<one>>]

\* run(mock_request): its result and the handler invocations it makes; uuid4
\* and hres are what uuid.uuid4() and the handler give
RunTask(w, mock_request, uuid4, hres) ==
  LET request == IF Truthy(mock_request) THEN mock_request
                 ELSE CloudTaskMockRequest(None, None, None, uuid4)
  IN IF w.base_task = None
     THEN [result |-> Raised(Exc("AttributeError", <<PyStr(TxtNoRun)>>, 0)), handled |-> <<>>]
     ELSE [result |-> hres,
           handled |-> <<[request |-> request, kwargs |-> RunKwargs(w), result |-> hres]>>]

(***************************************************************************)
(* batch_callback_logger                                                   *)
(***************************************************************************)
\* the callback raising with decoded['error'] in place of its message
BatchCallbackLoggerWholeError(id, message, exception) ==
  IF Truthy(exception)
  THEN LET decoded == JsonLoads(Utf8Decode(exception.args[2].v))
       IN Raised(Exc("Exception", <<DictGet(decoded, PyStr(TxtError))>>, 0))
  ELSE Returned(None)

\* what the callback does: Returned(None) when it returns, Raised(e) when it
\* raises
BatchCallbackLogger(id, message, exception) ==
  IF Truthy(exception)
  THEN LET bytes == exception.args[2]
           decoded == JsonLoads(Utf8Decode(bytes.v))
       IN Raised(Exc("Exception",
                     <<DictGet(DictGet(decoded, PyStr(TxtError)), PyStr(TxtMessage))>>, 0))
  ELSE Returned(None)

(***************************************************************************)
(* The queueing service: what the n-th call of the submission does.        *)
(***************************************************************************)
Resource(n) == [t |-> "resource", n |-> n]
HttpError(status, content, n) ==
  Exc("HttpError", <<[t |-> "resp", status |-> status], [t |-> "bytes", v |-> content]>>, n)
TransportError(n) == HttpError(503, <<>>, n)

\* the failures of single items the service reports to the callback
ItemFailures == {HttpError(429, b, 0) : b \in Bodies}

\* the callback on each thing the batch may hand it: a failure, or None
CallbackResults ==
  [exception \in ItemFailures \cup {None} |-> BatchCallbackLogger(PyInt(1), None, exception)]

\* the ways the n-th call of caller c's submission may go: it fails while
\* n <= plan[c]; a batch with items may fail by one item's failure
Modes(c, n) ==
  IF n > plan[c] THEN {[kind |-> "ok"]}
  ELSE {[kind |-> "transport"]}
       \cup IF call[c].op = "batch_execute" /\ batch[c].requests # <<>>
            THEN {[kind |-> "item", body |-> b] : b \in Bodies}
            ELSE {}

\* request.execute()
RequestExecute(mode, n) ==
  [result |-> IF mode.kind = "ok" THEN Returned(Resource(n)) ELSE Raised(TransportError(n)),
   callbacks |-> <<>>]

\* batch.execute(): the aggregate call; each item's callback is invoked with
\* the item's failure or None, and what a callback raises leaves the call
BatchHttpExecute(b, mode, n) ==
  CASE mode.kind = "transport" -> [result |-> Raised(TransportError(n)), callbacks |-> <<>>]
    [] mode.kind = "item" ->
         LET exception == HttpError(429, mode.body, 0)
             r == CallbackResults[exception]
         IN [result |-> IF r.kind = "raise" THEN Raised([r.error EXCEPT !.id = n])
                        ELSE Returned(None),
             callbacks |-> <<[exception |-> exception, result |-> r, n |-> 1]>>]
    [] OTHER ->
         [result |-> Returned(None),
          callbacks |-> IF b.requests = <<>> THEN <<>>
                        ELSE <<[exception |-> None, result |-> CallbackResults[None],
                                n |-> RunsLen(b.requests)]>>]

\* f(): the function the caller's retry wraps
CallF(c, mode, n) ==
  IF call[c].op = "batch_execute" THEN BatchHttpExecute(batch[c], mode, n)
  ELSE RequestExecute(mode, n)

(***************************************************************************)
(* retry                                                                   *)
(***************************************************************************)
\* a loop that does not test the counter
LoopContinuesAlways(left) == left = left

\* line 30: the loop's condition
LoopContinues(left) == left > 1

\* lines 41-42: what the wrapper raises once the loop is left
ExhaustedResult(e) ==
  IF e = None
  THEN Raised(Exc("AttributeError", <<PyStr(TxtNoArgs)>>, 0))
  ELSE Raised([e EXCEPT !.args = <<PyStr(TxtExhausted)>> \o @])

\* the test as `if retry_limit is None`
NoRetryIsNone(retry_limit) == retry_limit = None

\* `if not retry_limit` (lines 70 and 145)
NoRetry(retry_limit) == ~Truthy(retry_limit)

Count(evs, e) == Len(SelectSeq(evs, LAMBDA x : x = e))

\* entering retry(...)(f)(): lines 28-30
EnterRetry(c, retry_limit) ==
  /\ attempts_left' = [attempts_left EXCEPT ![c] = retry_limit.v]
  /\ error' = [error EXCEPT ![c] = None]
  /\ pc' = [pc EXCEPT ![c] = IF LoopContinues(retry_limit.v) THEN "try" ELSE "exhausted"]

\* lines 31-36: one call of f inside the loop
Attempt(c) ==
  /\ pc[c] = "try"
  /\ LET n == Count(events[c], "submit") + 1
     IN \E mode \in Modes(c, n) :
          LET r == CallF(c, mode, n)
          IN /\ callbacks' = [callbacks EXCEPT ![c] = @ \o r.callbacks]
             /\ IF r.result.kind = "return"
                THEN /\ outcome' = [outcome EXCEPT ![c] = r.result]
                     /\ pc' = [pc EXCEPT ![c] = "done"]
                     /\ events' = [events EXCEPT ![c] = @ \o <<"submit">>]
                     /\ UNCHANGED error
                ELSE /\ error' = [error EXCEPT ![c] = r.result.error]
                     /\ pc' = [pc EXCEPT ![c] = "sleep"]
                     /\ events' = [events EXCEPT ![c] = @ \o <<"submit", "warning">>]
                     /\ UNCHANGED outcome
  /\ UNCHANGED <<cfg, remote, wrapper, call, plan, attempts_left, batch, created, handled, requests>>

\* the sleep with one counter shared by all the calls
SleepShared(c) ==
  /\ pc[c] = "sleep"
  /\ events' = [events EXCEPT ![c] = @ \o <<"sleep">>]
  /\ attempts_left' = [d \in Callers |-> attempts_left[d] - 1]
  /\ pc' = [pc EXCEPT ![c] =
              IF LoopContinues(attempts_left[c] - 1) THEN "try" ELSE "exhausted"]
  /\ UNCHANGED <<cfg, remote, wrapper, call, plan, error, outcome, batch, created, callbacks,
                 handled, requests>>

\* lines 37-38 and the loop's test
Sleep(c) ==
  /\ pc[c] = "sleep"
  /\ events' = [events EXCEPT ![c] = @ \o <<"sleep">>]
  /\ attempts_left' = [attempts_left EXCEPT ![c] = @ - 1]
  /\ pc' = [pc EXCEPT ![c] =
              IF LoopContinues(attempts_left[c] - 1) THEN "try" ELSE "exhausted"]
  /\ UNCHANGED <<cfg, remote, wrapper, call, plan, error, outcome, batch, created, callbacks,
                 handled, requests>>

\* lines 40-42
Exhaust(c) ==
  /\ pc[c] = "exhausted"
  /\ outcome' = [outcome EXCEPT ![c] = ExhaustedResult(error[c])]
  /\ pc' = [pc EXCEPT ![c] = "done"]
  /\ UNCHANGED <<cfg, remote, wrapper, call, plan, attempts_left, error, batch, created,
                 callbacks, handled, events, requests>>

\* the single call of f when retry_limit is falsy (lines 146 and 71)
SubmitOnce(c) ==
  /\ pc[c] = "once"
  /\ \E mode \in Modes(c, 1) :
       LET r == CallF(c, mode, 1)
       IN /\ callbacks' = [callbacks EXCEPT ![c] = @ \o r.callbacks]
          /\ outcome' = [outcome EXCEPT ![c] = r.result]
  /\ events' = [events EXCEPT ![c] = @ \o <<"submit">>]
  /\ pc' = [pc EXCEPT ![c] = "done"]
  /\ UNCHANGED <<cfg, remote, wrapper, call, plan, attempts_left, error, batch, created, handled,
                 requests>>

\* lines 145-148 and 70-73: the submission, once or under retry
Dispatch(c, retry_limit) ==
  /\ \E k \in Plans : plan' = [plan EXCEPT ![c] = k]
  /\ IF NoRetry(retry_limit)
     THEN /\ pc' = [pc EXCEPT ![c] = "once"]
          /\ UNCHANGED <<attempts_left, error>>
     ELSE EnterRetry(c, retry_limit)

(***************************************************************************)
(* CloudTaskWrapper(...)                                                   *)
(***************************************************************************)
Construct(c) ==
  /\ pc[c] = "start"
  /\ \E base_task \in BaseTasks, data \in Payloads,
        internal_task_name \in {None, PyStr(TxtSendEmail)},
        task_handler_url \in {None, PyStr(TxtX)}, is_remote \in BOOLEAN :
       LET r == NewWrapper(cfg, base_task, PyStr(TxtDefault), data, internal_task_name,
                           task_handler_url, is_remote)
       IN /\ call' = [call EXCEPT ![c] =
                        [op |-> "CloudTaskWrapper", base_task |-> base_task,
                         internal_task_name |-> internal_task_name,
                         task_handler_url |-> task_handler_url]]
          /\ IF r.kind = "return"
             THEN /\ wrapper' = [wrapper EXCEPT ![c] = r.value]
                  /\ pc' = [pc EXCEPT ![c] = "ready"]
                  /\ UNCHANGED outcome
             ELSE /\ outcome' = [outcome EXCEPT ![c] = r]
                  /\ pc' = [pc EXCEPT ![c] = "done"]
                  /\ UNCHANGED wrapper
  /\ UNCHANGED <<cfg, remote, plan, attempts_left, error, batch, created, callbacks, handled,
                 events, requests>>

(***************************************************************************)
(* remote_task(queue, handler, task_handler_url) and .payload(data)        *)
(***************************************************************************)
RemoteTask(c) ==
  /\ pc[c] = "start"
  /\ \E queue \in {PyStr(TxtDefault), PyStr(TxtHigh)}, handler \in {PyStr(TxtSendEmail)},
        task_handler_url \in {None, PyStr(TxtX)} :
       /\ remote' = [remote EXCEPT ![c] =
                       RemoteCloudTask(cfg, queue, handler, task_handler_url)]
       /\ call' = [call EXCEPT ![c] =
                     [op |-> "remote_task", queue |-> queue, handler |-> handler,
                      task_handler_url |-> task_handler_url]]
  /\ pc' = [pc EXCEPT ![c] = "remote"]
  /\ UNCHANGED <<cfg, wrapper, plan, attempts_left, error, outcome, batch, created,
                 callbacks, handled, events, requests>>

Payload(c) ==
  /\ pc[c] = "remote"
  /\ \E data \in Payloads :
       LET r == RemotePayload(cfg, remote[c], data)
       IN /\ call' = [call EXCEPT ![c] = [op |-> "payload", payload |-> data]]
          /\ IF r.kind = "return"
             THEN /\ wrapper' = [wrapper EXCEPT ![c] = r.value]
                  /\ pc' = [pc EXCEPT ![c] = "ready"]
                  /\ UNCHANGED outcome
             ELSE /\ outcome' = [outcome EXCEPT ![c] = r]
                  /\ pc' = [pc EXCEPT ![c] = "done"]
                  /\ UNCHANGED wrapper
  /\ UNCHANGED <<cfg, remote, plan, attempts_left, error, batch, created, callbacks,
                 handled, events, requests>>

(***************************************************************************)
(* CloudTaskWrapper.set_queue                                              *)
(***************************************************************************)
SetQueue(c) ==
  /\ pc[c] = "ready"
  /\ \E queue \in {PyStr(TxtDefault), PyStr(TxtHigh)} :
       /\ wrapper' = [wrapper EXCEPT ![c].queue = queue]
       /\ call' = [call EXCEPT ![c] = [op |-> "set_queue", queue |-> queue]]
  /\ UNCHANGED <<cfg, remote, pc, plan, attempts_left, error, outcome, batch, created,
                 callbacks, handled, events, requests>>

(***************************************************************************)
(* CloudTaskWrapper.execute                                                *)
(***************************************************************************)
\* line 136 without its `not`
ExecutePathLocalIfRemote(config, w) ==
  IF config.execute_locally /\ w.is_remote THEN "local"
  ELSE IF w.is_remote /\ config.block_remote_tasks THEN "suppressed"
  ELSE "remote"

\* without the test of line 139
ExecutePathNeverSuppressed(config, w) ==
  IF config.execute_locally /\ ~w.is_remote THEN "local" ELSE "remote"

\* the path execute takes: lines 136 and 139
ExecutePath(config, w) ==
  IF config.execute_locally /\ ~w.is_remote THEN "local"
  ELSE IF w.is_remote /\ config.block_remote_tasks THEN "suppressed"
  ELSE "remote"

Execute(c) ==
  /\ pc[c] = "ready"
  /\ LET w == wrapper[c]
         task == CreateCloudTask(cfg, w)
     IN
     \E retry_limit \in RetryLimits, retry_interval \in RetryIntervals :
       LET path == ExecutePath(cfg, w)
       IN /\ call' = [call EXCEPT ![c] = [op |-> "execute", retry_limit |-> retry_limit,
                                           retry_interval |-> retry_interval]]
          /\ CASE path = "local" ->
                    \E hres \in HandlerResults, uuid4 \in Uuids :
                      LET r == RunTask(w, None, uuid4, hres)
                      IN /\ outcome' = [outcome EXCEPT ![c] = r.result]
                         /\ handled' = [handled EXCEPT ![c] = @ \o r.handled]
                         /\ pc' = [pc EXCEPT ![c] = "done"]
                         /\ UNCHANGED <<plan, attempts_left, error, created, events>>
               [] path = "suppressed" ->
                    /\ outcome' = [outcome EXCEPT ![c] = Returned(None)]
                    /\ events' = [events EXCEPT ![c] = @ \o <<"debug">>]
                    /\ pc' = [pc EXCEPT ![c] = "done"]
                    /\ UNCHANGED <<plan, attempts_left, error, created, handled>>
               [] OTHER ->
                    /\ created' = [created EXCEPT ![c] = @ \o Repeat(task, 1)]
                    /\ Dispatch(c, retry_limit)
                    /\ UNCHANGED <<outcome, handled, events>>
  /\ UNCHANGED <<cfg, remote, wrapper, batch, callbacks, requests>>

(***************************************************************************)
(* CloudTaskWrapper.create_cloud_task, called directly                     *)
(***************************************************************************)
CreateTask(c) ==
  /\ pc[c] = "ready"
  /\ LET task == CreateCloudTask(cfg, wrapper[c])
     IN /\ created' = [created EXCEPT ![c] = @ \o Repeat(task, 1)]
        /\ outcome' = [outcome EXCEPT ![c] = Returned(task)]
  /\ call' = [call EXCEPT ![c] = [op |-> "create_cloud_task"]]
  /\ pc' = [pc EXCEPT ![c] = "done"]
  /\ UNCHANGED <<cfg, remote, wrapper, plan, attempts_left, error, batch, callbacks, handled,
                 events, requests>>

(***************************************************************************)
(* CloudTaskWrapper.run, called directly                                   *)
(***************************************************************************)
Run(c) ==
  /\ pc[c] = "ready"
  /\ \E hres \in HandlerResults, uuid4 \in Uuids :
     \E mock_request \in {None} \cup
          {CloudTaskMockRequest(None, task_id, request_headers, uuid4) :
             task_id \in {None, PyStr(<<>>), PyStr(TxtT1)}, request_headers \in {None} \cup Metas} :
       LET r == RunTask(wrapper[c], mock_request, uuid4, hres)
       IN /\ call' = [call EXCEPT ![c] = [op |-> "run", mock_request |-> mock_request]]
          /\ outcome' = [outcome EXCEPT ![c] = r.result]
          /\ handled' = [handled EXCEPT ![c] = @ \o r.handled]
  /\ pc' = [pc EXCEPT ![c] = "done"]
  /\ UNCHANGED <<cfg, remote, wrapper, plan, attempts_left, error, batch, created, callbacks,
                 events, requests>>

(***************************************************************************)
(* batch_execute                                                           *)
(***************************************************************************)
\* line 63
BatchTooLarge(len) == len >= BatchLimit

\* lines 67-68: the requests added to the batch, one per task, each
\* t.create_cloud_task(); own is that value for the wrapper w0
AddAll(config, tasks, w0, own) ==
  [i \in 1..Len(tasks) |->
     [x |-> IF tasks[i].x = w0 THEN own ELSE CreateCloudTask(config, tasks[i].x),
      n |-> tasks[i].n]]

BatchExecute(c) ==
  /\ pc[c] = "ready"
  /\ LET own == CreateCloudTask(cfg, wrapper[c])
     IN
     \E size \in BatchSizes, retry_limit \in RetryLimits, retry_interval \in RetryIntervals :
       LET tasks == Repeat(wrapper[c], size)
           added == AddAll(cfg, tasks, wrapper[c], own)
       IN /\ call' = [call EXCEPT ![c] =
                        [op |-> "batch_execute", size |-> size, retry_limit |-> retry_limit,
                         retry_interval |-> retry_interval]]
          /\ IF BatchTooLarge(RunsLen(tasks))
             THEN /\ outcome' = [outcome EXCEPT ![c] =
                                   Raised(Exc("Exception", <<PyStr(TxtErrBatch)>>, 0))]
                  /\ pc' = [pc EXCEPT ![c] = "done"]
                  /\ UNCHANGED <<plan, attempts_left, error, batch, created, events>>
             ELSE /\ events' = [events EXCEPT ![c] = @ \o <<"new_batch">>]
                  /\ batch' = [batch EXCEPT ![c] =
                                 [t |-> "batch", requests |-> added]]
                  /\ created' = [created EXCEPT ![c] = @ \o added]
                  /\ Dispatch(c, retry_limit)
                  /\ UNCHANGED outcome
  /\ UNCHANGED <<cfg, remote, wrapper, callbacks, handled, requests>>

(***************************************************************************)
(* The worker side: an inbound request becomes an Execution Request.       *)
(***************************************************************************)
Worker(c) ==
  /\ pc[c] = "start"
  /\ \E meta \in Metas :
       LET request == [t |-> "HttpRequest", META |-> meta]
       IN /\ call' = [call EXCEPT ![c] = [op |-> "from_cloud_request", request |-> request]]
          /\ requests' = Append(requests, FromCloudRequest(request))
  /\ pc' = [pc EXCEPT ![c] = "done"]
  /\ UNCHANGED <<cfg, remote, wrapper, plan, attempts_left, error, outcome, batch, created,
                 callbacks, handled, events>>

(***************************************************************************)
(* The system.                                                             *)
(***************************************************************************)
InitOf(active) ==
  /\ cfg \in Configs
  /\ pc = [c \in Callers |-> IF c \in active THEN "start" ELSE "off"]
  /\ wrapper = [c \in Callers |-> None]
  /\ remote = [c \in Callers |-> None]
  /\ call = [c \in Callers |-> [op |-> "none"]]
  /\ plan = [c \in Callers |-> 0]
  /\ attempts_left = [c \in Callers |-> 0]
  /\ error = [c \in Callers |-> None]
  /\ outcome = [c \in Callers |-> Pending]
  /\ batch = [c \in Callers |-> None]
  /\ created = [c \in Callers |-> <<>>]
  /\ callbacks = [c \in Callers |-> <<>>]
  /\ handled = [c \in Callers |-> <<>>]
  /\ events = [c \in Callers |-> <<>>]
  /\ requests = <<>>

Init == InitOf({"c1"})

Next ==
  \E c \in Callers :
    \/ Construct(c)
    \/ RemoteTask(c)
    \/ Payload(c)
    \/ SetQueue(c)
    \/ Worker(c)
    \/ Execute(c)
    \/ CreateTask(c)
    \/ Run(c)
    \/ BatchExecute(c)
    \/ Attempt(c)
    \/ Sleep(c)
    \/ Exhaust(c)
    \/ SubmitOnce(c)

Spec == Init /\ [][Next]_vars

\* a call that was started runs on: f() returns or raises, time.sleep returns
\* and the statements of retry.wrapper are executed one after the other
RunOn(c) == Attempt(c) \/ Sleep(c) \/ Exhaust(c) \/ SubmitOnce(c)

(***************************************************************************)
(* The dispatch alone: execute and batch_execute on wrappers already       *)
(* built, under a configuration that neither runs locally nor suppresses,  *)
(* by the callers in `active`.                                             *)
(***************************************************************************)
\* the wrappers CloudTaskWrapper(...) gives for a bound task and a remote one
DispatchWrappers(config) ==
  LET made == {NewWrapper(config, base_task, PyStr(TxtDefault), data, None, None, is_remote) :
                 base_task \in BaseTasks \ {None}, data \in {None}, is_remote \in BOOLEAN}
  IN {r.value : r \in {x \in made : x.kind = "return"}}

InitDispatch(active) ==
  /\ cfg \in {config \in Configs : /\ ~config.execute_locally
                                   /\ ~config.block_remote_tasks
                                   /\ Truthy(config.task_handler_root_url)}
  /\ pc = [c \in Callers |-> IF c \in active THEN "ready" ELSE "off"]
  /\ wrapper \in {w \in [Callers -> DispatchWrappers(cfg)] :
                   \A c, d \in Callers : c # d => w[c] # w[d]}
  /\ remote = [c \in Callers |-> None]
  /\ call = [c \in Callers |-> [op |-> "none"]]
  /\ plan = [c \in Callers |-> 0]
  /\ attempts_left = [c \in Callers |-> 0]
  /\ error = [c \in Callers |-> None]
  /\ outcome = [c \in Callers |-> Pending]
  /\ batch = [c \in Callers |-> None]
  /\ created = [c \in Callers |-> <<>>]
  /\ callbacks = [c \in Callers |-> <<>>]
  /\ handled = [c \in Callers |-> <<>>]
  /\ events = [c \in Callers |-> <<>>]
  /\ requests = <<>>

NextDispatch ==
  \E c \in Callers :
    \/ Execute(c)
    \/ BatchExecute(c)
    \/ Attempt(c)
    \/ Sleep(c)
    \/ Exhaust(c)
    \/ SubmitOnce(c)

\* one caller, whose call runs on once started
SpecFair ==
  InitDispatch({"c1"}) /\ [][NextDispatch]_vars /\ \A c \in Callers : WF_vars(RunOn(c))

\* two callers, interleaved in any order: both may call execute, and one of
\* them batch_execute
NextTwo ==
  \/ \E c \in Callers : Execute(c) \/ RunOn(c)
  \/ BatchExecute("c2")

SpecTwo == InitDispatch(Callers) /\ [][NextTwo]_vars

(***************************************************************************)
(* The encoder alone: create_cloud_task on wrappers over more handler      *)
(* names, payloads, queues and handler URLs.                               *)
(***************************************************************************)
\* the handler names given explicitly: none, "send_email", and 'a"\é'
WideNames == {None, PyStr(TxtSendEmail), PyStr(<<97, 34, 92, 233>>)}

\* the wrappers CloudTaskWrapper(...) gives on those inputs
WideWrappers(config) ==
  LET made == {NewWrapper(config, base_task, queue, data, internal_task_name,
                          task_handler_url, FALSE) :
                 base_task \in BaseTasks, queue \in {PyStr(TxtDefault), PyStr(TxtHigh)},
                 data \in WidePayloads, internal_task_name \in WideNames,
                 task_handler_url \in {None, PyStr(TxtX)}}
  IN {r.value : r \in {x \in made : x.kind = "return"}}

InitEncode ==
  /\ cfg \in {config \in Configs : ~config.execute_locally /\ ~config.block_remote_tasks}
  /\ pc = [c \in Callers |-> IF c = "c1" THEN "ready" ELSE "off"]
  /\ wrapper \in {[c \in Callers |-> IF c = "c1" THEN w ELSE None] : w \in WideWrappers(cfg)}
  /\ remote = [c \in Callers |-> None]
  /\ call = [c \in Callers |-> [op |-> "none"]]
  /\ plan = [c \in Callers |-> 0]
  /\ attempts_left = [c \in Callers |-> 0]
  /\ error = [c \in Callers |-> None]
  /\ outcome = [c \in Callers |-> Pending]
  /\ batch = [c \in Callers |-> None]
  /\ created = [c \in Callers |-> <<>>]
  /\ callbacks = [c \in Callers |-> <<>>]
  /\ handled = [c \in Callers |-> <<>>]
  /\ events = [c \in Callers |-> <<>>]
  /\ requests = <<>>

NextEncode == \E c \in Callers : CreateTask(c)

SpecEncode == InitEncode /\ [][NextEncode]_vars

(***************************************************************************)
(* What the claims speak of.                                               *)
(***************************************************************************)
Submits(c) == Count(events[c], "submit")
Sleeps(c) == Count(events[c], "sleep")

\* c's call went to the queueing service: execute on the remote-dispatch
\* path, or batch_execute on a list below the limit
Submitting(c) ==
  \/ /\ call[c].op = "execute"
     /\ ~(cfg.execute_locally /\ ~wrapper[c].is_remote)
     /\ ~(wrapper[c].is_remote /\ cfg.block_remote_tasks)
  \/ /\ call[c].op = "batch_execute"
     /\ call[c].size < 1000

\* c's call was given the retry_limit n, an integer
LimitIs(c, n) == call[c].retry_limit = PyInt(n)

\* the error carries the "exhausted" marker in front of its args
Marked(e) == Len(e.args) >= 1 /\ e.args[1] = PyStr(TxtExhausted)

(***************************************************************************)
(* C1.  For every retry_limit n >= 1 and a submission that fails on every  *)
(* call, the retried call invokes the submission exactly n times, sleeps   *)
(* exactly n-1 times and then raises an error whose args begin with        *)
(* 'Task scheduling limit exhausted'.                                      *)
(* The loop runs while attempts_left > 1, so the code makes n-1 calls and  *)
(* n-1 sleeps, and for n = 1 no call at all.                               *)
(***************************************************************************)
C1_ExhaustionCounts ==
  \A c \in Callers :
    \A n \in 1..MaxRetry :
      (pc[c] = "done" /\ Submitting(c) /\ LimitIs(c, n) /\ plan[c] >= n)
        => /\ Submits(c) = n
           /\ Sleeps(c) = n - 1
           /\ outcome[c].kind = "raise"
           /\ Marked(outcome[c].error)

(***************************************************************************)
(* C2.  For every k >= 0 and every retry_limit > k: when the submission    *)
(* fails on its first k calls and succeeds on call k+1, the retried call   *)
(* returns that call's value, has slept exactly k times and has called     *)
(* the submission k+1 times, no more.                                      *)
(* With retry_limit = k+1 the code never makes call k+1.                   *)
(***************************************************************************)
C2_SuccessAfterFailures ==
  \A c \in Callers :
    \A n \in 1..MaxRetry :
      (pc[c] = "done" /\ Submitting(c) /\ LimitIs(c, n) /\ plan[c] < n)
        => /\ outcome[c].kind = "return"
           /\ call[c].op = "execute" => outcome[c].value = [t |-> "resource", n |-> plan[c] + 1]
           /\ Sleeps(c) = plan[c]
           /\ Submits(c) = plan[c] + 1

(***************************************************************************)
(* C3.  With a falsy retry_limit (0 or None), execute on the remote path   *)
(* and batch_execute call the submission exactly once, never sleep, and a  *)
(* failure of the submission reaches the caller as it was raised, with no  *)
(* 'exhausted' marker put in front of its args.                            *)
(***************************************************************************)
C3_FalsyLimitSubmitsOnce ==
  \A c \in Callers :
    (Submitting(c) /\ call[c].retry_limit \in {None, PyInt(0)})
      => /\ Sleeps(c) = 0
         /\ Submits(c) <= 1
         /\ pc[c] = "done" =>
              /\ Submits(c) = 1
              /\ plan[c] = 0 => outcome[c].kind = "return"
              /\ plan[c] > 0 =>
                   /\ outcome[c].kind = "raise"
                   /\ outcome[c].error.id = 1
                   /\ outcome[c].error.type \in {"HttpError", "Exception"}
                   /\ ~Marked(outcome[c].error)
                   /\ outcome[c].error.type = "HttpError" =>
                        outcome[c].error.args
                          = <<[t |-> "resp", status |-> 503], [t |-> "bytes", v |-> <<>>]>>

\* a submission that failed under a falsy retry_limit, on each of the two
\* operations
C3_Witness ==
  /\ pc["c1"] = "done" /\ Submitting("c1") /\ plan["c1"] > 0
  /\ call["c1"].retry_limit = PyInt(0)
  /\ outcome["c1"].kind = "raise"

(***************************************************************************)
(* C4.  When execute_locally() is true and the wrapper is not remote,      *)
(* execute (for any retry_limit, retry_interval and block_remote_tasks())  *)
(* never builds or submits a request, and what it returns is exactly what  *)
(* the bound handler's run returned.                                       *)
(***************************************************************************)
C4_LocalRunReturnsHandlerValue ==
  \A c \in Callers :
    (call[c].op = "execute" /\ cfg.execute_locally /\ ~wrapper[c].is_remote)
      => /\ created[c] = <<>>
         /\ events[c] = <<>>
         /\ batch[c] = None
         /\ pc[c] = "done"
         /\ Len(handled[c]) <= 1
         /\ outcome[c].kind = "return" =>
              /\ Len(handled[c]) = 1
              /\ handled[c][1].result = outcome[c]
         /\ Len(handled[c]) = 1 => outcome[c] = handled[c][1].result

\* a local run that returned the handler's value, under a retry_limit and
\* with remote tasks blocked
C4_Witness ==
  /\ call["c1"].op = "execute" /\ cfg.execute_locally /\ ~wrapper["c1"].is_remote
  /\ cfg.block_remote_tasks
  /\ call["c1"].retry_limit = PyInt(2)
  /\ outcome["c1"] = Returned(PyInt(7))

(***************************************************************************)
(* C5.  When the wrapper is remote and block_remote_tasks() is true,       *)
(* execute returns None, makes no call to the queueing service (no request *)
(* built, none submitted), invokes no handler and never sleeps, whatever   *)
(* execute_locally() and retry_limit are.                                  *)
(***************************************************************************)
C5_BlockedRemoteIsNoOp ==
  \A c \in Callers :
    (call[c].op = "execute" /\ wrapper[c].is_remote /\ cfg.block_remote_tasks)
      => /\ pc[c] = "done"
         /\ outcome[c] = Returned(None)
         /\ created[c] = <<>>
         /\ batch[c] = None
         /\ handled[c] = <<>>
         /\ events[c] = <<"debug">>

\* a suppressed dispatch under local execution and a retry_limit
C5_Witness ==
  /\ call["c1"].op = "execute" /\ wrapper["c1"].is_remote /\ cfg.block_remote_tasks
  /\ cfg.execute_locally
  /\ call["c1"].retry_limit = PyInt(3)
  /\ pc["c1"] = "done"

(***************************************************************************)
(* C6.  batch_execute on a list of 1000 tasks or more raises the           *)
(* batch-size error before any batch is created, any request built or      *)
(* added, or any aggregate call made; on a list of at most 999 tasks whose *)
(* aggregate call succeeds, every task is added to the one batch and       *)
(* exactly one aggregate call is made.                                     *)
(* With retry_limit = 1 the code makes no aggregate call at all (see C1).  *)
(***************************************************************************)
C6_BatchSizeGate ==
  \A c \in Callers :
    call[c].op = "batch_execute" =>
      /\ call[c].size >= 1000 =>
           /\ pc[c] = "done"
           /\ outcome[c].kind = "raise"
           /\ outcome[c].error.args = <<PyStr(TxtErrBatch)>>
           /\ batch[c] = None
           /\ created[c] = <<>>
           /\ events[c] = <<>>
      /\ (call[c].size <= 999 /\ plan[c] = 0 /\ pc[c] = "done") =>
           /\ RunsLen(batch[c].requests) = call[c].size
           /\ RunsLen(created[c]) = call[c].size
           /\ Count(events[c], "new_batch") = 1
           /\ Submits(c) = 1

(***************************************************************************)
(* C7.  The per-item callback, invoked with a failure whose body decodes   *)
(* to {"error": {"message": X}}, raises an error whose message is exactly  *)
(* X (and that error leaves the aggregate call); invoked with no failure,  *)
(* it raises nothing.                                                      *)
(***************************************************************************)
\* the message each body carries: 'quota', and 'a "b" é'
MessageOf(body) ==
  IF body = BodyQuota THEN <<113, 117, 111, 116, 97>> ELSE <<97, 32, 34, 98, 34, 32, 233>>

C7_CallbackRaisesMessage ==
  \A c \in Callers :
    /\ \A i \in 1..Len(callbacks[c]) :
         LET cb == callbacks[c][i]
         IN IF cb.exception = None
            THEN cb.result = Returned(None)
            ELSE /\ cb.result.kind = "raise"
                 /\ cb.result.error.type = "Exception"
                 /\ cb.result.error.args = <<PyStr(MessageOf(cb.exception.args[2].v))>>
    /\ (pc[c] = "done" /\ call[c].op = "batch_execute" /\ call[c].retry_limit = PyInt(0)
        /\ callbacks[c] # <<>> /\ callbacks[c][1].exception # None)
         => outcome[c].kind = "raise"
            /\ outcome[c].error.args = <<PyStr(MessageOf(callbacks[c][1].exception.args[2].v))>>

\* the callback was invoked with the failure whose body is indented and
\* whose message has escapes, and the batch call raised
C7_Witness ==
  /\ pc["c1"] = "done" /\ call["c1"].op = "batch_execute"
  /\ call["c1"].retry_limit = PyInt(0)
  /\ callbacks["c1"] # <<>>
  /\ callbacks["c1"][1].exception # None
  /\ callbacks["c1"][1].exception.args[2].v = BodyDenied

\* the callback was invoked with no failure, for each of 999 items
C7_WitnessNoFailure ==
  /\ callbacks["c1"] # <<>>
  /\ callbacks["c1"][1].exception = None
  /\ callbacks["c1"][1].n = 999

(***************************************************************************)
(* C8.  Constructing a CloudTaskWrapper fails at once with a configuration *)
(* error (the ValueError of setup) when the task name resolves to empty    *)
(* (no explicit name and no name on the bound handler, or no bound handler *)
(* at all) or the handler URL resolves to empty; then no wrapper exists    *)
(* and no call to the queueing service, retry or sleep happens.            *)
(* With no explicit name and no bound handler the code raises the          *)
(* AttributeError of None.internal_task_name instead.                      *)
(***************************************************************************)
C8_ConstructionFailsFast ==
  \A c \in Callers :
    (call[c].op = "CloudTaskWrapper"
     /\ \/ /\ call[c].internal_task_name = None
           /\ \/ call[c].base_task = None
              \/ call[c].base_task.internal_task_name.v = <<>>
        \/ /\ call[c].task_handler_url = None
           /\ cfg.task_handler_root_url.v = <<>>)
      => /\ pc[c] = "done"
         /\ outcome[c].kind = "raise"
         /\ outcome[c].error.type = "ValueError"
         /\ wrapper[c] = None
         /\ created[c] = <<>>
         /\ events[c] = <<>>

(***************************************************************************)
(* C9.  For every handler name H and JSON-representable payload P, the     *)
(* payload field create_cloud_task puts in the task resource decodes       *)
(* (base64, then JSON) to {internal_task_name: H, data: P}, except that    *)
(* UUID values appear as their flat hexadecimal string; the resource also  *)
(* carries httpMethod POST and relativeUrl equal to the wrapper's handler  *)
(* URL.                                                                    *)
(***************************************************************************)
\* the 32 hexadecimal digits of the two UUIDs:
\* "123456789abcdef00123456789abcdef" and "000000000000400080000000000000ff"
FlatHexOf(u) ==
  IF u.v[1] = 18
  THEN <<49, 50, 51, 52, 53, 54, 55, 56, 57, 97, 98, 99, 100, 101, 102, 48, 48, 49, 50, 51, 52, 53, 54, 55, 56, 57, 97, 98, 99, 100, 101, 102>>
  ELSE <<48, 48, 48, 48, 48, 48, 48, 48, 48, 48, 48, 48, 52, 48, 48, 48, 56, 48, 48, 48, 48, 48, 48, 48, 48, 48, 48, 48, 48, 48, 102, 102>>

\* P with every UUID in it replaced by its flat hexadecimal string
RECURSIVE Flattened(_)
Flattened(o) ==
  CASE o.t = "uuid" -> PyStr(FlatHexOf(o))
    [] o.t = "list" -> PyList([i \in 1..Len(o.v) |-> Flattened(o.v[i])])
    [] o.t = "dict" -> PyDict([i \in 1..Len(o.v) |-> <<o.v[i][1], Flattened(o.v[i][2])>>])
    [] OTHER -> o

C9_PayloadRoundTrip ==
  \A c \in Callers :
    \A i \in 1..Len(created[c]) :
      LET task == created[c][i].x
          w == wrapper[c]
      IN /\ task.body.httpMethod = PyStr(<<80, 79, 83, 84>>)
         /\ task.body.relativeUrl = w.task_handler_url
         /\ JsonLoads(Utf8Decode(B64Decode(task.body.payload.v)))
              = PyDict(<< <<PyStr(TxtNameKey), w.internal_task_name>>,
                          <<PyStr(TxtDataKey), Flattened(w.data)>> >>)

\* a task was built for a handler name with escapes and a payload holding a
\* UUID inside a list
C9_Witness ==
  /\ created["c1"] # <<>>
  /\ wrapper["c1"].internal_task_name = PyStr(<<97, 34, 92, 233>>)
  /\ wrapper["c1"].data.t = "dict"
  /\ \E i \in 1..Len(wrapper["c1"].data.v) :
       /\ wrapper["c1"].data.v[i][2].t = "list"
       /\ \E j \in 1..Len(wrapper["c1"].data.v[i][2].v) :
            wrapper["c1"].data.v[i][2].v[j].t = "uuid"

(***************************************************************************)
(* C10.  Every Execution Request presented to a handler has a task id that *)
(* is present (not None, not empty) and a header mapping that is not None, *)
(* both when synthesized locally (CloudTaskMockRequest, with or without a  *)
(* task id and headers supplied) and when built from an inbound worker     *)
(* request by from_cloud_request, also when the inbound request lacks the  *)
(* task-name header.                                                       *)
(* from_cloud_request passes on what the header mapping holds: None for a  *)
(* missing task-name header.                                               *)
(***************************************************************************)
ExecutionRequests ==
  {requests[i] : i \in 1..Len(requests)}
  \cup UNION {{handled[c][i].request : i \in 1..Len(handled[c])} : c \in Callers}

C10_TaskIdAlwaysPresent ==
  \A r \in ExecutionRequests :
    /\ r.task_id # None
    /\ r.task_id.v # <<>>
    /\ r.request_headers # None

(***************************************************************************)
(* C10, amended.  Every Execution Request synthesized locally              *)
(* (CloudTaskMockRequest, with or without a task id and headers supplied)  *)
(* has a task id that is present and a header mapping that is not None; a  *)
(* request built by from_cloud_request has the inbound request's header    *)
(* mapping (not None) and the task id that mapping holds under the         *)
(* task-name header, None when the header is missing.                      *)
(***************************************************************************)
C10_TaskIdPresentWhenSynthesized ==
  \A r \in ExecutionRequests :
    IF r.t = "CloudTaskMockRequest"
    THEN /\ r.task_id # None
         /\ r.task_id.v # <<>>
         /\ r.request_headers # None
         /\ r.request_headers.t = "dict"
    ELSE /\ r.request_headers = r.request.META
         /\ r.request_headers # None
         /\ \/ \E j \in 1..Len(r.request.META.v) :
                 /\ r.request.META.v[j][1] = PyStr(TxtTaskNameHeader)
                 /\ r.task_id = r.request.META.v[j][2]
            \/ /\ \A j \in 1..Len(r.request.META.v) :
                    r.request.META.v[j][1] # PyStr(TxtTaskNameHeader)
               /\ r.task_id = None

\* a request was built from an inbound request without the task-name header
C10_Witness ==
  \E i \in 1..Len(requests) :
    /\ requests[i].t = "CloudTaskRequest"
    /\ requests[i].request.META.v # <<>>
    /\ requests[i].task_id = None

\* a handler was run with a mock request built with no task id and no headers
C10_WitnessMock ==
  /\ Len(handled["c1"]) = 1
  /\ call["c1"].op = "run"
  /\ call["c1"].mock_request # None
  /\ handled["c1"][1].request.request_headers = PyDict(<<>>)
  /\ Len(handled["c1"][1].request.task_id.v) = 32

(***************************************************************************)
(* C11.  RemoteCloudTask.payload(data) returns a new CloudTaskWrapper with *)
(* no bound handler, is_remote = true, the given payload and the           *)
(* reference's queue, handler name and handler URL, and leaves the         *)
(* reference's own fields unchanged; so, for every configuration,          *)
(* execute() on a wrapper produced this way never takes the local-run      *)
(* path: it is suppressed or dispatched to the queueing service.           *)
(***************************************************************************)
\* execute() of c did not run the handler in-process: it was suppressed, or a
\* request was built for the queueing service
NotRunLocally(c) ==
  /\ handled[c] = <<>>
  /\ outcome[c] # Raised(Exc("AttributeError", <<PyStr(TxtNoRun)>>, 0))
  /\ \/ /\ cfg.block_remote_tasks
        /\ events[c] = <<"debug">>
        /\ created[c] = <<>>
        /\ outcome[c] = Returned(None)
     \/ /\ ~cfg.block_remote_tasks
        /\ Len(created[c]) = 1
        /\ created[c][1].x.body.relativeUrl = remote[c].task_handler_url

C11_RemotePayloadWrapper ==
  /\ [](\A c \in Callers :
          (remote[c] # None /\ call[c].op = "execute") => NotRunLocally(c))
  /\ [][\A c \in Callers :
          /\ (pc[c] = "remote" /\ pc'[c] = "ready") =>
               wrapper'[c] = [t |-> "wrapper", base_task |-> None,
                              data |-> call'[c].payload, queue |-> remote[c].queue,
                              internal_task_name |-> remote[c].handler,
                              task_handler_url |-> remote[c].task_handler_url,
                              is_remote |-> TRUE]
          /\ remote[c] # None => remote'[c] = remote[c]]_vars

\* execute() was called, with local execution configured, on a wrapper that
\* payload() produced
C11_Witness ==
  /\ remote["c1"] # None
  /\ call["c1"].op = "execute"
  /\ cfg.execute_locally
  /\ wrapper["c1"].data # None
  /\ pc["c1"] = "done"

(***************************************************************************)
(* C12.  Whenever neither the local-run condition (execute_locally() and   *)
(* not is_remote) nor the suppression condition (is_remote and             *)
(* block_remote_tasks()) holds, execute(retry_limit, retry_interval)       *)
(* builds the wire request and makes at least one submission attempt for   *)
(* every retry_limit (0, 1 or larger), and never invokes the bound handler *)
(* in-process; block_remote_tasks() has no effect on a non-remote wrapper. *)
(* With retry_limit = 1 the loop of retry is never entered, and no         *)
(* submission is attempted.                                                *)
(***************************************************************************)
C12_RemoteDispatchSubmits ==
  \A c \in Callers :
    ( /\ call[c].op = "execute"
      /\ ~(cfg.execute_locally /\ ~wrapper[c].is_remote)
      /\ ~(wrapper[c].is_remote /\ cfg.block_remote_tasks) )
      => /\ Len(created[c]) = 1
         /\ handled[c] = <<>>
         /\ pc[c] = "done" => Submits(c) >= 1

(***************************************************************************)
(* C13.  For every retry_limit >= 1, when all permitted attempts fail, the *)
(* error the retry wrapper raises is the very error raised by the last     *)
(* attempt of the wrapped operation, with 'Task scheduling limit           *)
(* exhausted' prepended to its arguments; the wrapper never raises an      *)
(* error of its own.                                                       *)
(* With retry_limit = 1 no attempt is made and the wrapper raises an       *)
(* AttributeError of its own.                                              *)
(***************************************************************************)
C13_ExhaustedErrorIsLastAttempts ==
  \A c \in Callers :
    \A n \in 1..MaxRetry :
      (pc[c] = "done" /\ Submitting(c) /\ LimitIs(c, n) /\ outcome[c].kind = "raise")
        => /\ Submits(c) >= 1
           /\ outcome[c].error.type \in {"HttpError", "Exception"}
           /\ outcome[c].error.id = Submits(c)
           /\ Marked(outcome[c].error)
           /\ Tail(outcome[c].error.args) = error[c].args

(***************************************************************************)
(* C14.  In the retry wrapper a wait of retry_interval happens only        *)
(* between two attempts: after a failed attempt that is not the final      *)
(* permitted one the wrapper waits once and then retries, and after the    *)
(* final permitted attempt fails the error is re-raised with no wait in    *)
(* between.                                                                *)
(* The code sleeps after every failed attempt, the last one included, and  *)
(* only then leaves the loop and raises.                                   *)
(***************************************************************************)
C14_NoWaitBeforeRaise ==
  \A c \in Callers :
    (Submitting(c) /\ pc[c] \in {"exhausted", "done"} /\ events[c] # <<>>)
      => events[c][Len(events[c])] # "sleep"

(***************************************************************************)
(* C15.  For every truthy retry_limit and every pattern of failures of the *)
(* operation, the retry wrapper terminates (returns a value or raises),    *)
(* and in every reachable state the number of attempts made so far is at   *)
(* most retry_limit and the number of sleeps is at most the number of      *)
(* failed attempts.                                                        *)
(***************************************************************************)
C15_RetryTerminatesWithinLimit ==
  /\ [](\A c \in Callers :
          (Submitting(c) /\ call[c].retry_limit # None /\ call[c].retry_limit.v >= 1)
            => /\ Submits(c) <= call[c].retry_limit.v
               /\ Sleeps(c) <= Count(events[c], "warning")
               /\ Count(events[c], "warning") <= Submits(c))
  /\ \A c \in Callers :
       (pc[c] \in {"try", "sleep", "exhausted"})
         ~> (pc[c] = "done" /\ outcome[c].kind \in {"return", "raise"})

\* a retried call has ended after the largest number of failures
C15_Witness ==
  /\ pc["c1"] = "done"
  /\ Submitting("c1")
  /\ LimitIs("c1", MaxRetry)
  /\ plan["c1"] = MaxRetry
  /\ Sleeps("c1") = MaxRetry - 1
  /\ outcome["c1"].kind = "raise"

(***************************************************************************)
(* C20.  When execute() calls on two distinct Task Wrappers (or            *)
(* batch_execute calls) are interleaved in any order, each call's attempt  *)
(* counter is private to that call: the number of attempts, the number of  *)
(* sleeps and the final outcome of one call depend only on the failures of *)
(* its own submission and are what they are when the call runs alone.      *)
(***************************************************************************)
Least(a, b) == IF a <= b THEN a ELSE b

\* what a call with the integer retry_limit n >= 1 does when it runs alone
\* and its submission fails k times before it succeeds
AloneSubmits(n, k) == Least(k + 1, n - 1)
AloneSleeps(n, k) == Least(k, n - 1)
AloneReturns(n, k) == k + 1 <= n - 1

C20_CountersArePrivate ==
  \A c \in Callers :
    (call[c].op \in {"execute", "batch_execute"} /\ pc[c] # "done") =>
      IF call[c].retry_limit = None \/ call[c].retry_limit.v = 0
      THEN Submits(c) = 0 /\ Sleeps(c) = 0
      ELSE /\ attempts_left[c] = call[c].retry_limit.v - Sleeps(c)
           /\ Submits(c) <= AloneSubmits(call[c].retry_limit.v, plan[c])
           /\ Sleeps(c) <= AloneSleeps(call[c].retry_limit.v, plan[c])

C20_WitnessInterleaved ==
  /\ pc["c1"] = "sleep" /\ pc["c2"] = "try"
  /\ Sleeps("c1") = 1 /\ Sleeps("c2") = 1
  /\ attempts_left["c1"] = 2 /\ attempts_left["c2"] = MaxRetry - 1

(***************************************************************************)
(* C16.  On the local-run path of execute() the bound handler is invoked   *)
(* exactly once whatever retry_limit is; if it raises, that same error     *)
(* reaches the caller unmodified (no 'exhausted' prefix), with no retry,   *)
(* no sleep and no call to the queueing service.                           *)
(***************************************************************************)
C16_LocalErrorPropagates ==
  \A c \in Callers :
    ( /\ call[c].op = "execute"
      /\ cfg.execute_locally /\ ~wrapper[c].is_remote
      /\ wrapper[c].base_task # None )
      => /\ pc[c] = "done"
         /\ Len(handled[c]) = 1
         /\ handled[c][1].result.kind = "raise" =>
              /\ outcome[c] = handled[c][1].result
              /\ outcome[c].error = Exc("RuntimeError", <<PyStr(<<104>>)>>, 1)
              /\ ~Marked(outcome[c].error)
         /\ Submits(c) = 0
         /\ Sleeps(c) = 0
         /\ events[c] = <<>>
         /\ created[c] = <<>>
         /\ error[c] = None

\* a handler raised on the local-run path of an execute with a retry_limit
C16_Witness ==
  /\ call["c1"].op = "execute" /\ cfg.execute_locally /\ ~wrapper["c1"].is_remote
  /\ call["c1"].retry_limit = PyInt(MaxRetry)
  /\ Len(handled["c1"]) = 1
  /\ outcome["c1"].kind = "raise"
  /\ outcome["c1"].error.type = "RuntimeError"

(***************************************************************************)
(* C17.  In batch_execute with retry_limit > 1, a failure raised during    *)
(* the aggregate call (a transport failure or a per-item failure re-raised *)
(* by the callback) causes the whole aggregate call to be invoked again    *)
(* after a sleep; no item is retried individually, and across all attempts *)
(* each task's request is built and added to the batch exactly once.       *)
(* With retry_limit = 2 the loop allows one attempt only: after the        *)
(* failure and the sleep the aggregate call is not invoked again.          *)
(***************************************************************************)
C17_BatchRetriedAsAWhole ==
  \A c \in Callers :
    ( /\ call[c].op = "batch_execute" /\ call[c].size < 1000
      /\ call[c].retry_limit # None /\ call[c].retry_limit.v > 1 )
      => /\ RunsLen(created[c]) = call[c].size
         /\ batch[c].requests = created[c]
         /\ Count(events[c], "new_batch") = 1
         /\ (pc[c] = "done" /\ plan[c] >= 1) =>
              /\ Submits(c) >= 2
              /\ Sleeps(c) >= 1
              /\ events[c][2] = "submit" /\ events[c][3] = "warning"
              /\ events[c][4] = "sleep" /\ events[c][5] = "submit"

(***************************************************************************)
(* C18.  run(mock_request) invokes the bound handler exactly once: with    *)
(* the request plus the payload's entries as keyword arguments when the    *)
(* payload is non-empty, and with only the request when the payload is     *)
(* absent or empty; a supplied mock_request is passed through as given,    *)
(* otherwise a fresh request with a generated task id and empty headers is *)
(* synthesized.  run never contacts the queueing service and leaves the    *)
(* wrapper's fields unchanged.                                             *)
(***************************************************************************)
C18_RunInvokesHandlerOnce ==
  /\ [](\A c \in Callers :
          (call[c].op = "run" /\ wrapper[c].base_task # None) =>
            /\ Len(handled[c]) = 1
            /\ handled[c][1].kwargs =
                 IF wrapper[c].data = None \/ wrapper[c].data.v = <<>>
                 THEN PyDict(<<>>) ELSE wrapper[c].data
            /\ IF call[c].mock_request # None
               THEN handled[c][1].request = call[c].mock_request
               ELSE /\ handled[c][1].request.t = "CloudTaskMockRequest"
                    /\ handled[c][1].request.request = None
                    /\ handled[c][1].request.task_id.t = "str"
                    /\ Len(handled[c][1].request.task_id.v) = 32
                    /\ handled[c][1].request.request_headers = PyDict(<<>>)
            /\ outcome[c] = handled[c][1].result
            /\ events[c] = <<>>
            /\ created[c] = <<>>
            /\ batch[c] = None)
  /\ [][\A c \in Callers :
          (call'[c].op = "run" /\ call[c].op # "run") => wrapper'[c] = wrapper[c]]_vars

\* run() without a mock request on a wrapper with a payload
C18_Witness ==
  /\ call["c1"].op = "run"
  /\ call["c1"].mock_request = None
  /\ wrapper["c1"].data # None /\ wrapper["c1"].data.v # <<>>
  /\ Len(handled["c1"]) = 1
  /\ Len(handled["c1"][1].kwargs.v) = 1

\* run() with a mock request on a wrapper without payload
C18_WitnessMock ==
  /\ call["c1"].op = "run"
  /\ call["c1"].mock_request # None
  /\ wrapper["c1"].data = None
  /\ Len(handled["c1"]) = 1

(***************************************************************************)
(* C19.  The queue path used for a submission is resolved when the request *)
(* is built, not when the wrapper is constructed: after set_queue(q) the   *)
(* next create_cloud_task/execute targets                                  *)
(* '<project_location_name>/queues/q', and set_queue changes nothing else  *)
(* on the wrapper (task name, payload, handler URL and is_remote are       *)
(* unchanged).                                                             *)
(***************************************************************************)
\* 'p/l/queues/' followed by the queue's name
QueuePath(queue) == PyStr(<<112, 47, 108, 47, 113, 117, 101, 117, 101, 115, 47>> \o queue.v)

C19_QueueResolvedAtSubmission ==
  /\ [](\A c \in Callers :
          \A i \in 1..Len(created[c]) :
            created[c][i].x.parent = QueuePath(wrapper[c].queue))
  /\ [][\A c \in Callers :
          (pc[c] = "ready" /\ pc'[c] = "ready" /\ call'[c].op = "set_queue") =>
            /\ wrapper'[c].queue = call'[c].queue
            /\ wrapper'[c] = [wrapper[c] EXCEPT !.queue = call'[c].queue]
            /\ created'[c] = created[c]]_vars

\* a wrapper constructed on queue "default" was moved to "high" and then
\* executed
C19_Witness ==
  /\ call["c1"].op = "execute"
  /\ remote["c1"] = None
  /\ wrapper["c1"].queue = PyStr(<<104, 105, 103, 104>>)
  /\ Len(created["c1"]) = 1

====
